---- MODULE Spec2Model ----
(***************************************************************************)
(* eyeutil: the bounded stream view InputSlice (src/src/slice.rs) over a   *)
(* seekable byte stream, with the stream-position helpers of lib.rs.       *)
(*                                                                         *)
(* Offsets are u64 in the source.  The model keeps the same unsigned       *)
(* arithmetic (checked, saturating, and the plain + and - that panic with  *)
(* overflow checks on and wrap with them off) over the narrower word       *)
(* 0..U64Max, so that the overflow cases are reachable; i64 seek offsets    *)
(* are narrowed the same way to I64Min..I64Max.                            *)
(***************************************************************************)
EXTENDS Integers, Sequences, FiniteSets, TLC

\* Largest offset of the unsigned offset word (u64::MAX in the source).
U64Max == 5
\* Largest buffer length handed to read / read_exact.
MaxBuf == 3

Mod == U64Max + 1
I64Max == U64Max \div 2
I64Min == (-I64Max) - 1

\* Marker for a call that panicked (assert!, or arithmetic overflow when the
\* build has overflow checks on).
PANIC == -1

\* The underlying byte vectors the runs are drawn from (a std::io::Cursor
\* over each); the first is the kind of buffer test_general wraps.
Streams == { <<17, 34, 51, 68>>, <<9, 8>> }

VARIABLES
    data,    \* the bytes of the underlying stream (Cursor's inner Vec<u8>)
    pos,     \* absolute position of the underlying stream
    debug,   \* build profile: overflow checks and debug_assert! are on
    view,    \* "none": stream not wrapped, "live": wrapped, "aborted": panicked
    start,   \* InputSlice.range.start()  (inclusive)
    last,    \* InputSlice.range.end()    (inclusive)
    origin,  \* absolute position of the stream when the view was constructed
    call,    \* the last call made, with its arguments
    pre,     \* absolute position of the stream before the last call
    ret      \* what the last call returned

vars == <<data, pos, debug, view, start, last, origin, call, pre, ret>>

Min(a, b) == IF a <= b THEN a ELSE b

------------------------------------------------------------------------------
(* u64 arithmetic *)

\* Rust `a + b` on u64: exact, or on overflow a panic (overflow checks on)
\* or the wrapped sum (overflow checks off).
add_u64(a, b) ==
    IF a = PANIC \/ b = PANIC THEN PANIC
    ELSE IF a + b > U64Max THEN (IF debug THEN PANIC ELSE (a + b) % Mod)
    ELSE a + b

\* Rust `a - b` on u64.
sub_u64(a, b) ==
    IF a = PANIC \/ b = PANIC THEN PANIC
    ELSE IF a < b THEN (IF debug THEN PANIC ELSE (a - b) % Mod)
    ELSE a - b

\* u64::checked_add, checked_sub: NONE stands for None.
NONE == -2
\* faulty variant of checked_add: wraps instead of reporting the overflow
wrapping_add(a, b) == (a + b) % Mod
checked_add(a, b) == IF a + b > U64Max THEN NONE ELSE a + b
checked_sub(a, b) == IF a < b THEN NONE ELSE a - b
saturating_add(a, b) == Min(a + b, U64Max)

------------------------------------------------------------------------------
(* results *)

Ok(v, p)        == [res |-> "Ok", kind |-> "", val |-> v, bytes |-> <<>>, pos |-> p]
OkBytes(b, p)   == [res |-> "Ok", kind |-> "", val |-> Len(b), bytes |-> b, pos |-> p]
Err(k, b, p)    == [res |-> "Err", kind |-> k, val |-> 0, bytes |-> b, pos |-> p]
Panicked(b, p)  == [res |-> "Panic", kind |-> "", val |-> 0, bytes |-> b, pos |-> p]

------------------------------------------------------------------------------
(* the underlying stream: std::io::Cursor<Vec<u8>> *)

\* F::read at position p into a buffer of length n: the bytes delivered.
InputRead(p, n) ==
    LET from == Min(p, Len(data))
        amt  == Min(n, Len(data) - from)
    IN  SubSeq(data, from + 1, from + amt)

------------------------------------------------------------------------------
(* InputSlice accessors *)

\* exclusive end: *self.range.end() + 1
end == add_u64(last, 1)

contains(position) == start <= position /\ position <= last

\* position within the slice: absolute_stream_position()? - self.start()
stream_position(p) == sub_u64(p, start)

\* faulty variant of get_distance_from_end: measures to the inclusive end
get_distance_from_last(position) == sub_u64(last, position)
get_distance_from_end(position) == sub_u64(end, position)

\* position == self.end(), for a view whose end() does not panic
position_at_end(p) == p = end

------------------------------------------------------------------------------
(* impl Read for InputSlice *)

\* InputSlice::read with the stream at absolute position p and a buffer of
\* length n.
read(p, n) ==
    LET current_position == stream_position(p)
    IN  IF current_position = PANIC \/ end = PANIC THEN Panicked(<<>>, p)
        ELSE IF position_at_end(p) THEN Ok(0, p)
        ELSE LET dist == get_distance_from_end(current_position)
             IN  IF dist = PANIC THEN Panicked(<<>>, p)
                 ELSE LET max == Min(n, dist)
                          got == InputRead(p, max)
                          np  == p + Len(got)
                      IN  \* debug_assert!(self.stream_position()? <= self.end())
                          IF debug /\ (stream_position(np) = PANIC
                                       \/ stream_position(np) > end)
                          THEN Panicked(got, np)
                          ELSE OkBytes(got, np)

\* Read::read_exact (the std default): read until the buffer is full; a read
\* of zero bytes before that is UnexpectedEof.
RECURSIVE read_exact_from(_, _, _)
read_exact_from(p, n, acc) ==
    IF n = 0 THEN OkBytes(acc, p)
    ELSE LET r == read(p, n)
         IN  IF r.res = "Panic" THEN Panicked(acc \o r.bytes, r.pos)
             ELSE IF r.val = 0 THEN Err("UnexpectedEof", acc, r.pos)
             ELSE read_exact_from(r.pos, n - r.val, acc \o r.bytes)

read_exact(p, n) == read_exact_from(p, n, <<>>)

------------------------------------------------------------------------------
(* impl Seek for InputSlice *)

\* (base_pos, offset) of the match on SeekFrom; base PANIC when it panics
seek_base(p, from, off) ==
    CASE from = "Start"   -> off
      [] from = "Current" -> stream_position(p)
      [] from = "End"     -> end

seek_offset(from, off) == IF from = "Start" THEN 0 ELSE off

\* faulty variant of seek_add: `offset as u64` added whatever its sign
seek_add_as_u64(base_pos, offset) == checked_add(base_pos, offset % Mod)
\* base_pos.checked_add(offset as u64) / checked_sub(offset.wrapping_neg() as u64)
seek_add(base_pos, offset) ==
    IF offset >= 0 THEN checked_add(base_pos, offset)
    ELSE checked_sub(base_pos, -offset)

\* faulty variant of clamp: pins to the inclusive end, as the doc comment of seek says
clamp_to_last(abs) == IF contains(abs) THEN abs ELSE last
\* "Clamp to new_pos": a target outside the inclusive range becomes end()
clamp(abs) == IF contains(abs) THEN abs ELSE end

\* InputSlice::seek with the stream at absolute position p.
seek(p, from, off) ==
    LET base_pos == seek_base(p, from, off)
        offset   == seek_offset(from, off)
    IN  IF base_pos = PANIC THEN Panicked(<<>>, p)
        ELSE LET rel == seek_add(base_pos, offset)
             IN  IF rel = NONE THEN Err("InvalidInput", <<>>, p)
                 ELSE LET abs == checked_add(rel, start)
                      IN  IF abs = NONE THEN Err("InvalidInput", <<>>, p)
                          ELSE LET new_pos == clamp(abs)
                               IN  IF new_pos = PANIC THEN Panicked(<<>>, p)
                                   \* self.input.seek(SeekFrom::Start(new_pos)).map(|x| x - self.start())
                                   ELSE IF sub_u64(new_pos, start) = PANIC
                                        THEN Panicked(<<>>, new_pos)
                                        ELSE Ok(sub_u64(new_pos, start), new_pos)

\* faulty variant of slice_stream_len: stays at the end it sought
slice_stream_len_at_end(p) ==
    IF stream_position(p) = PANIC \/ end = PANIC THEN Panicked(<<>>, p)
    ELSE seek(p, "Start", end)

\* InputSlice::stream_len with the stream at absolute position p: seek to
\* SeekFrom::Start(self.end()), seek back unless already there, and clamp
\* the length to end() - start().
slice_stream_len(p) ==
    LET old_pos == stream_position(p)
    IN  IF old_pos = PANIC \/ end = PANIC THEN Panicked(<<>>, p)
        ELSE LET to_end == seek(p, "Start", end)
             IN  IF to_end.res # "Ok" THEN to_end
                 ELSE LET len  == to_end.val
                          back == IF old_pos # len
                                  THEN seek(to_end.pos, "Start", old_pos)
                                  ELSE to_end
                      IN  IF back.res # "Ok" THEN back
                          ELSE IF sub_u64(end, start) = PANIC
                               THEN Panicked(<<>>, back.pos)
                               ELSE Ok(Min(len, sub_u64(end, start)), back.pos)

------------------------------------------------------------------------------
(* constructors *)

\* The std::ops::Bound values a RangeBounds<u64> argument is made of.
BoundSet == {<<"Unbounded", 0>>}
              \cup {<<"Included", x>> : x \in 0..U64Max}
              \cup {<<"Excluded", x>> : x \in 0..U64Max}

\* A range argument: its start bound and its end bound.
RangeSet == [sb : BoundSet, eb : BoundSet]

\* RangeBounds::contains(&position) on the range as given
range_contains(range, position) ==
    /\ CASE range.sb[1] = "Unbounded" -> TRUE
         [] range.sb[1] = "Included"  -> range.sb[2] <= position
         [] range.sb[1] = "Excluded"  -> range.sb[2] < position
    /\ CASE range.eb[1] = "Unbounded" -> TRUE
         [] range.eb[1] = "Included"  -> position <= range.eb[2]
         [] range.eb[1] = "Excluded"  -> position < range.eb[2]

\* What a constructor that panicked leaves: no view.
NoView == [panic |-> TRUE, start |-> 0, last |-> 0]

\* InputSlice::new_unchecked: the inclusive range stored, or a panic
new_unchecked(range) ==
    LET s == CASE range.sb[1] = "Unbounded" -> 0
               [] range.sb[1] = "Included"  -> range.sb[2]
               [] range.sb[1] = "Excluded"  -> add_u64(range.sb[2], 1)
        e == CASE range.eb[1] = "Unbounded" -> U64Max
               [] range.eb[1] = "Included"  -> range.eb[2]
               [] range.eb[1] = "Excluded"  -> sub_u64(range.eb[2], 1)
    IN  IF s = PANIC \/ e = PANIC THEN NoView ELSE [panic |-> FALSE, start |-> s, last |-> e]

\* InputSlice::new with the stream at position p: assert!, then new_unchecked
new(p, range) ==
    IF ~range_contains(range, p) THEN NoView ELSE new_unchecked(range)

\* InputSlice::at with the stream at position p: start..=start.saturating_add(amount)
at(p, amount) ==
    new_unchecked([sb |-> <<"Included", p>>,
                   eb |-> <<"Included", saturating_add(p, amount)>>])

------------------------------------------------------------------------------
(* the state machine *)

Init ==
    /\ data \in Streams
    /\ pos \in 0..Len(data)
    /\ debug \in BOOLEAN
    /\ view = "none"
    /\ start = 0
    /\ last = 0
    /\ origin = 0
    /\ call = [op |-> "init"]
    /\ pre = pos
    /\ ret = Ok(0, pos)

\* A constructor returned r (a view, or a panic) for the call c.
Construct(c, r) ==
    /\ view = "none"
    /\ call' = c
    /\ pre' = pos
    /\ origin' = pos
    /\ IF r.panic
       THEN /\ view' = "aborted"
            /\ ret' = Panicked(<<>>, pos)
            /\ UNCHANGED <<start, last>>
       ELSE /\ view' = "live"
            /\ ret' = Ok(0, pos)
            /\ start' = r.start
            /\ last' = r.last
    /\ UNCHANGED <<data, pos, debug>>

New == \E range \in RangeSet :
    Construct([op |-> "new", range |-> range], new(pos, range))

NewUnchecked == \E range \in RangeSet :
    Construct([op |-> "new_unchecked", range |-> range], new_unchecked(range))

At == \E amount \in 0..U64Max :
    Construct([op |-> "at", amount |-> amount], at(pos, amount))

\* A call on the live view returned r.
Return(c, r) ==
    /\ view = "live"
    /\ call' = c
    /\ pre' = pos
    /\ ret' = r
    /\ pos' = r.pos
    /\ view' = IF r.res = "Panic" THEN "aborted" ELSE "live"
    /\ UNCHANGED <<data, debug, start, last, origin>>

Read == \E n \in 0..MaxBuf :
    Return([op |-> "read", n |-> n], read(pos, n))

ReadExact == \E n \in 0..MaxBuf :
    Return([op |-> "read_exact", n |-> n], read_exact(pos, n))

SeekStart == \E off \in 0..U64Max :
    Return([op |-> "seek", from |-> "Start", off |-> off], seek(pos, "Start", off))

\* faulty variant of SeekCurrent: the underlying stream is moved by the
\* offset before the target is checked
SeekCurrentMovingFirst == \E off \in I64Min..I64Max :
    LET r == seek(pos, "Current", off)
    IN  Return([op |-> "seek", from |-> "Current", off |-> off],
               IF r.res = "Err" /\ pos + off >= 0 /\ pos + off <= U64Max
               THEN [r EXCEPT !.pos = pos + off]
               ELSE r)

SeekCurrent == \E off \in I64Min..I64Max :
    Return([op |-> "seek", from |-> "Current", off |-> off], seek(pos, "Current", off))

SeekEnd == \E off \in I64Min..I64Max :
    Return([op |-> "seek", from |-> "End", off |-> off], seek(pos, "End", off))

SliceStreamLen ==
    Return([op |-> "stream_len"], slice_stream_len(pos))

\* InputSlice::into_inner: the caller takes the stream back where it was left
IntoInner ==
    /\ view = "live"
    /\ view' = "none"
    /\ call' = [op |-> "into_inner"]
    /\ pre' = pos
    /\ ret' = Ok(0, pos)
    /\ start' = 0
    /\ last' = 0
    /\ origin' = 0
    /\ UNCHANGED <<data, pos, debug>>

Next ==
    \/ New
    \/ NewUnchecked
    \/ At
    \/ Read
    \/ ReadExact
    \/ SeekStart
    \/ SeekCurrent
    \/ SeekEnd
    \/ SliceStreamLen
    \/ IntoInner

Spec == Init /\ [][Next]_vars

------------------------------------------------------------------------------
(* vocabulary of the properties *)

\* The window [start, End) and its length, as mathematical integers.
End == last + 1
WindowLen == End - start

\* The view was built as new_unchecked's "Soundness" note requires: the
\* stream stood inside the inclusive range, and end() is representable.
Sound ==
    /\ view = "live"
    /\ start <= origin /\ origin <= last
    /\ last < U64Max

\* As Sound, and also the views built with the stream at the exclusive end
\* (the empty window among them); the view may since have panicked.
WellFormed ==
    /\ view \in {"live", "aborted"}
    /\ start <= origin /\ origin <= End
    /\ last < U64Max

IsSeek == call.op = "seek"

\* The relative target a seek asks for, as a mathematical integer.
RequestedTarget ==
    CASE call.from = "Start"   -> call.off
      [] call.from = "Current" -> (pre - start) + call.off
      [] call.from = "End"     -> WindowLen + call.off

\* The sums seek forms, as mathematical integers: base + offset, with base
\* the value the match on SeekFrom yields (end() for SeekFrom::End), and
\* that sum plus start().
SeekSum ==
    CASE call.from = "Start"   -> call.off
      [] call.from = "Current" -> (pre - start) + call.off
      [] call.from = "End"     -> End + call.off

SeekOutOfRange == SeekSum < 0 \/ SeekSum > U64Max \/ SeekSum + start > U64Max

\* The view stands at its end and every read there yields Ok(0).
AtEndReadsNothing ==
    /\ pos = End
    /\ \A n \in 0..MaxBuf : read(pos, n).res = "Ok" /\ read(pos, n).val = 0

------------------------------------------------------------------------------
(* C1..C10: the bounded view *)

\* C1: no read through a soundly built view delivers a byte whose absolute
\* offset lies outside [start, end): a read that starts at absolute
\* position pre delivers at most end - pre bytes.
C1_ReadStaysInWindow ==
    (call.op = "read" /\ Sound /\ ret.val > 0)
        => (start <= pre /\ pre + ret.val <= End)

\* C2: for a soundly built view the relative position stays in
\* 0 .. end - start, i.e. the absolute position stays in [start, end].
C2_PositionInWindow ==
    Sound => (start <= pos /\ pos - start <= WindowLen)

\* C3 (as stated): a seek whose target lies past the end of the view, for
\* any offset, returns Ok, leaves the view at end() and the next read
\* returns Ok(0).
C3_SeekPastEndNeverFails ==
    (IsSeek /\ WellFormed /\ RequestedTarget > WindowLen)
        => (ret.res = "Ok" /\ ret.val = WindowLen /\ AtEndReadsNothing)

\* C3 (amended): a seek whose target lies past the end of the view fails
\* with InvalidInput, leaving the stream where it was, exactly when one of
\* the sums it forms overflows the offset type; otherwise it returns Ok with
\* the relative position end - start, leaves the view at end() and the next
\* read returns Ok(0).
C3_SeekPastEndClampsUnlessOverflow ==
    (IsSeek /\ WellFormed /\ RequestedTarget > WindowLen)
        => IF SeekOutOfRange
           THEN ret.res = "Err" /\ ret.kind = "InvalidInput" /\ pos = pre
           ELSE ret.res = "Ok" /\ ret.val = WindowLen /\ AtEndReadsNothing

\* C3 witness: a relative seek past the end of a view with start > 0 was
\* clamped to end().
C3_Witness ==
    /\ IsSeek /\ WellFormed /\ RequestedTarget > WindowLen
    /\ call.from = "Current" /\ start > 0 /\ pre < End
    /\ ret.res = "Ok" /\ pos = End

\* C4: read_exact of n bytes fails with UnexpectedEof whenever fewer than n
\* bytes remain between the position and the end of the view.
C4_ReadExactFailsAtEnd ==
    (call.op = "read_exact" /\ Sound /\ start <= pre /\ pre <= End
        /\ call.n > End - pre)
        => (ret.res = "Err" /\ ret.kind = "UnexpectedEof")

\* C5: with the view at relative position p and p + n <= end - start (the
\* stream holding those bytes), reading n bytes yields exactly the bytes of
\* the stream at absolute offsets start+p .. start+p+n-1 and advances the
\* position by n.
C5_Transparent ==
    (call.op \in {"read", "read_exact"} /\ WellFormed
        /\ start <= pre /\ (pre - start) + call.n <= WindowLen
        /\ pre + call.n <= Len(data))
        => /\ ret.res = "Ok"
           /\ ret.val = call.n
           /\ ret.bytes = SubSeq(data, pre + 1, pre + call.n)
           /\ pos - start = (pre - start) + call.n

\* C5 witness: two or more bytes were read from the middle of a view with
\* start > 0, up to its last byte.
C5_Witness ==
    /\ call.op = "read_exact" /\ WellFormed /\ start > 0 /\ pre > start
    /\ call.n >= 2 /\ pre + call.n = End /\ pre + call.n <= Len(data)
    /\ ret.res = "Ok" /\ Len(ret.bytes) = call.n

\* C6: at(stream, length) with the stream at p and p + length not
\* overflowing builds a view with start() = p and end() - start() = length.
C6_AtHasLength ==
    (call.op = "at" /\ pre + call.amount <= U64Max)
        => (ret.res = "Ok" /\ start = pre /\ WindowLen = call.amount)

\* The constructor call asked for an empty window at the stream's position.
EmptyWindowCall ==
    \/ /\ call.op \in {"new", "new_unchecked"}
       /\ call.range = [sb |-> <<"Included", pre>>, eb |-> <<"Excluded", pre>>]
    \/ /\ call.op = "at"
       /\ call.amount = 0

\* C7: building a view over the empty window at the stream's position
\* succeeds, and the view is at its end and returns Ok(0) from every read.
C7_EmptyWindowLegal ==
    EmptyWindowCall
        => /\ ret.res = "Ok"
           /\ view = "live"
           /\ end # PANIC
           /\ position_at_end(pos)
           /\ \A n \in 0..MaxBuf : read(pos, n).res = "Ok" /\ read(pos, n).val = 0

\* C8: new(stream, range) with the stream's position outside range returns
\* an Err value, and leaves the position unmoved.
C8_NewReportsFailure ==
    (call.op = "new" /\ ~range_contains(call.range, pre))
        => (ret.res = "Err" /\ pos = pre)

\* C9: a seek whose sum base + offset is negative or overflows the offset
\* type, or overflows once start() is added, fails with InvalidInput.
C9_SeekRejectsOverflow ==
    (IsSeek /\ WellFormed /\ SeekOutOfRange)
        => (ret.res = "Err" /\ ret.kind = "InvalidInput")

\* C9 witness: a seek whose target overflows only once start() is added
\* was rejected.
C9_Witness ==
    /\ IsSeek /\ WellFormed /\ start > 0
    /\ SeekSum <= U64Max /\ SeekSum + start > U64Max
    /\ ret.res = "Err"

\* C10: seek(SeekFrom::End(-k)) with 0 <= k <= end - start returns the
\* relative position end - start - k and leaves the stream at end - k.
C10_SeekFromEnd ==
    (IsSeek /\ Sound /\ call.from = "End"
        /\ call.off <= 0 /\ -call.off <= WindowLen)
        => (ret.res = "Ok" /\ ret.val = WindowLen + call.off
            /\ pos = End + call.off)

------------------------------------------------------------------------------
(* lib.rs and parse.rs: the helpers and combinators over a stream F, which *)
(* is the Cursor itself (view = "none") or an InputSlice over it ("live")  *)

\* Longest stream and longest tag of the combinator runs.
MaxStream == 3
MaxTag == 2

\* The byte values the combinator runs are made of.
ByteSet == {0, 1}
SeqsUpTo(n) == UNION {[1..m -> ByteSet] : m \in 0..n}
ParseStreams == SeqsUpTo(MaxStream)

\* std::io::Cursor::seek with the Cursor at position p
cursor_seek(p, from, off) ==
    IF from = "Start" THEN Ok(off, off)
    ELSE LET base == IF from = "End" THEN Len(data) ELSE p
         IN  IF base + off < 0 \/ base + off > U64Max
             THEN Err("InvalidInput", <<>>, p)
             ELSE Ok(base + off, base + off)

\* F::seek and F::read of the stream handed to a helper
f_seek(p, from, off) ==
    IF view = "live" THEN seek(p, from, off) ELSE cursor_seek(p, from, off)

f_read(p, n) ==
    IF view = "live" THEN read(p, n)
    ELSE OkBytes(InputRead(p, n), p + Len(InputRead(p, n)))

\* Cursor::read_exact (std's own, not the default loop): with fewer than n
\* bytes left it copies nothing and puts the position at the length of the
\* data; otherwise it copies n bytes and advances by n
cursor_read_exact(p, n, acc) ==
    IF n <= Len(data) - Min(p, Len(data))
    THEN OkBytes(acc \o InputRead(p, n), p + n)
    ELSE Err("UnexpectedEof", acc, Len(data))

\* F::read_exact with acc already in the buffer.  On a view it is the default
\* loop over InputSlice::read: read until the buffer is full, a read of zero
\* bytes before that is UnexpectedEof.  On the Cursor it is Cursor's own.
RECURSIVE f_read_exact_from(_, _, _)
f_read_exact_from(p, n, acc) ==
    IF view = "none" THEN cursor_read_exact(p, n, acc)
    ELSE IF n = 0 THEN OkBytes(acc, p)
    ELSE LET r == f_read(p, n)
         IN  IF r.res = "Panic" THEN Panicked(acc \o r.bytes, r.pos)
             ELSE IF r.val = 0 THEN Err("UnexpectedEof", acc, r.pos)
             ELSE f_read_exact_from(r.pos, n - r.val, acc \o r.bytes)

f_read_exact(p, n) == f_read_exact_from(p, n, <<>>)

\* lib.rs stream_position: f.seek(SeekFrom::Current(0))
lib_stream_position(p) == f_seek(p, "Current", 0)

\* faulty variant of lib_stream_len: never seeks back
lib_stream_len_no_restore(p) ==
    LET old == lib_stream_position(p)
    IN  IF old.res # "Ok" THEN old ELSE f_seek(old.pos, "End", 0)

\* lib.rs stream_len: seek to the end, and back unless already there
lib_stream_len(p) ==
    LET old == lib_stream_position(p)
    IN  IF old.res # "Ok" THEN old
        ELSE LET len == f_seek(old.pos, "End", 0)
             IN  IF len.res # "Ok" THEN len
                 ELSE IF old.val # len.val
                      THEN LET back == f_seek(len.pos, "Start", old.val)
                           IN  IF back.res # "Ok" THEN back
                               ELSE Ok(len.val, back.pos)
                      ELSE Ok(len.val, len.pos)

\* faulty variant of lib_stream_len_seeks: the restoring seek is always made
lib_stream_len_seeks_always_back(p) ==
    LET old == lib_stream_position(p)
    IN  IF old.res # "Ok" THEN 1
        ELSE IF f_seek(old.pos, "End", 0).res # "Ok" THEN 2 ELSE 3

\* lib.rs stream_len: the number of calls of f.seek it makes, the one inside
\* stream_position included
lib_stream_len_seeks(p) ==
    LET old == lib_stream_position(p)
    IN  IF old.res # "Ok" THEN 1
        ELSE LET len == f_seek(old.pos, "End", 0)
             IN  IF len.res # "Ok" THEN 2
                 ELSE IF old.val # len.val THEN 3 ELSE 2

\* `?` on an io::Result inside a parser: impl From<io::Error> for ParseError
from_io(r) ==
    IF r.res = "Panic" THEN Panicked(<<>>, r.pos)
    ELSE Err(IF r.kind = "UnexpectedEof" THEN "Io(UnexpectedEof)"
             ELSE "Io(InvalidInput)", <<>>, r.pos)

\* parse.rs single: one byte
single(p) ==
    LET r == f_read_exact(p, 1) IN IF r.res = "Ok" THEN r ELSE from_io(r)

\* parse.rs take: amount bytes
take(p, amount) ==
    LET r == f_read_exact(p, amount) IN IF r.res = "Ok" THEN r ELSE from_io(r)

\* faulty variant of parse_peek: parses and stays there
parse_no_peek(p, k) == take(p, k)

\* parse.rs Parse::parse_peek, for a parser that takes k bytes: parse, then
\* seek back to the position reported before
parse_peek(p, k) ==
    LET initial == lib_stream_position(p)
    IN  IF initial.res # "Ok" THEN from_io(initial)
        ELSE LET parsed == take(initial.pos, k)
             IN  IF parsed.res = "Panic" THEN parsed
                 ELSE LET back == f_seek(parsed.pos, "Start", initial.val)
                      IN  IF back.res # "Ok" THEN from_io(back)
                          ELSE [parsed EXCEPT !.pos = back.pos]

\* The end of the loop of many: debug_assert_eq!(stream_position(f)?, stream_len)
many_finish(p, len, result) ==
    IF ~debug THEN [Ok(Len(result), p) EXCEPT !.bytes = result]
    ELSE LET at_exit == lib_stream_position(p)
         IN  IF at_exit.res # "Ok" THEN from_io(at_exit)
             ELSE IF at_exit.val # len THEN Panicked(<<>>, at_exit.pos)
             ELSE [Ok(Len(result), at_exit.pos) EXCEPT !.bytes = result]

\* The loop of many and many_parse with a step that takes k bytes
RECURSIVE many_loop(_, _, _, _)
many_loop(p, k, len, result) ==
    LET here == lib_stream_position(p)
    IN  IF here.res # "Ok" THEN from_io(here)
        ELSE IF here.val >= len THEN many_finish(here.pos, len, result)
        ELSE LET step == take(here.pos, k)
             IN  IF step.res # "Ok" THEN step
                 ELSE many_loop(step.pos, k, len, Append(result, step.bytes))

\* faulty variant of many: takes the stream to be one byte shorter
many_short(p, k) ==
    LET len == lib_stream_len(p)
    IN  IF len.res # "Ok" THEN from_io(len)
        ELSE many_loop(len.pos, k, len.val - 1, <<>>)

\* parse.rs many / many_parse
many(p, k) ==
    LET len == lib_stream_len(p)
    IN  IF len.res # "Ok" THEN from_io(len)
        ELSE many_loop(len.pos, k, len.val, <<>>)

\* reads the whole tag, then reports whether every byte matched
RECURSIVE tag_read_all(_, _, _, _)
tag_read_all(p, tagdata, i, ok) ==
    IF i > Len(tagdata)
    THEN IF ok THEN Ok(0, p) ELSE Err("InvalidByte", <<>>, p)
    ELSE LET value == single(p)
         IN  IF value.res # "Ok" THEN value
             ELSE tag_read_all(value.pos, tagdata, i + 1,
                               ok /\ value.bytes[1] = tagdata[i])

\* The loop of tag from the i-th byte of the tag on
RECURSIVE tag_from(_, _, _)
tag_from(p, tagdata, i) ==
    IF i > Len(tagdata) THEN Ok(0, p)
    ELSE LET value == single(p)
         IN  IF value.res # "Ok" THEN value
             ELSE IF tagdata[i] # value.bytes[1]
                  THEN Err("InvalidByte", <<>>, value.pos)
                  ELSE tag_from(value.pos, tagdata, i + 1)

\* faulty variant of tag: reads the whole tag before it reports a mismatch
tag_consume_all(p, tagdata) == tag_read_all(p, tagdata, 1, TRUE)

\* faulty variant of tag: compares the first byte only
tag_first_byte(p, tagdata) == tag_from(p, SubSeq(tagdata, 1, Min(1, Len(tagdata))), 1)

\* parse.rs tag
tag(p, tagdata) == tag_from(p, tagdata, 1)

\* faulty variant of take_until_from: hands back what it has at the end of
\* the stream
RECURSIVE take_until_partial(_, _, _, _)
take_until_partial(p, terminator, include, result) ==
    LET value == f_read_exact(p, 1)
    IN  IF value.res = "Panic" THEN from_io(value)
        ELSE IF value.res # "Ok" THEN OkBytes(result, value.pos)
        ELSE IF value.bytes[1] = terminator
             THEN OkBytes(IF include THEN Append(result, terminator) ELSE result,
                          value.pos)
             ELSE take_until_partial(value.pos, terminator, include,
                                     Append(result, value.bytes[1]))

\* The loop of take_until with result collected so far
RECURSIVE take_until_from(_, _, _, _)
take_until_from(p, terminator, include, result) ==
    LET value == f_read_exact(p, 1)
    IN  IF value.res # "Ok" THEN from_io(value)
        ELSE IF value.bytes[1] = terminator
             THEN OkBytes(IF include THEN Append(result, terminator) ELSE result,
                          value.pos)
             ELSE take_until_from(value.pos, terminator, include,
                                  Append(result, value.bytes[1]))

\* faulty variant of take_until: the terminator is always part of the result
take_until_with_terminator(p, terminator, include) ==
    take_until_from(p, terminator, TRUE, <<>>)

\* parse.rs take_until
take_until(p, terminator, include) ==
    take_until_from(p, terminator, include, <<>>)

\* The scalar decoders of parse.rs.  A byte holds one of the values of
\* ByteSet, so a w-byte integer is a number below Radix^w.
Radix == Cardinality(ByteSet)

\* The widths of u8/i8, u16/i16, u32/i32, u64/i64 in bytes.
Widths == {1, 2, 4, 8}

Endians == {"Little", "Big"}

RECURSIVE Pow(_, _)
Pow(b, e) == IF e = 0 THEN 1 ELSE b * Pow(b, e - 1)

\* uN::from_le_bytes: the first byte is the least significant
RECURSIVE from_le_bytes(_)
from_le_bytes(b) ==
    IF b = <<>> THEN 0 ELSE Head(b) + Radix * from_le_bytes(Tail(b))

\* faulty variant of from_be_bytes: reads the bytes in little-endian order
from_host_bytes(b) == from_le_bytes(b)

\* uN::from_be_bytes: the last byte is the least significant
RECURSIVE from_be_bytes(_)
from_be_bytes(b) ==
    IF b = <<>> THEN 0
    ELSE b[Len(b)] + Radix * from_be_bytes(SubSeq(b, 1, Len(b) - 1))

\* iN::from_*_bytes: the same bits read as two's complement
as_signed(u, w) == IF 2 * u >= Pow(Radix, w) THEN u - Pow(Radix, w) ELSE u

\* the bits of a signed or unsigned value of w bytes
as_unsigned(v, w) == v % Pow(Radix, w)

\* uN::to_le_bytes
RECURSIVE to_le_bytes(_, _)
to_le_bytes(u, w) ==
    IF w = 0 THEN <<>> ELSE <<u % Radix>> \o to_le_bytes(u \div Radix, w - 1)

\* uN::to_be_bytes
RECURSIVE to_be_bytes(_, _)
to_be_bytes(u, w) ==
    IF w = 0 THEN <<>> ELSE Append(to_be_bytes(u \div Radix, w - 1), u % Radix)

\* impl Parse for u8..i64: single / take_2 / take_4 / take_8, then
\* from_be_bytes or from_le_bytes; the one-byte types take no byte order
parse_scalar(p, w, signed, endian) ==
    LET taken == take(p, w)
    IN  IF taken.res # "Ok" THEN taken
        ELSE LET u == IF w > 1 /\ endian = "Big"
                      THEN from_be_bytes(taken.bytes)
                      ELSE from_le_bytes(taken.bytes)
             IN  Ok(IF signed THEN as_signed(u, w) ELSE u, taken.pos)

\* The widths of f32 and f64 in bytes.
FloatWidths == {4, 8}

\* impl Parse for f32, f64: take_4 / take_8, then from_be_bytes or
\* from_le_bytes; a float is held as its bit pattern
parse_float(p, w, endian) == parse_scalar(p, w, FALSE, endian)

\* impl Parse for [T; N], T a w-byte integer: data.push(T::parse(f, d)?),
\* an entry that failed ends the loop with its error
RECURSIVE parse_array_from(_, _, _, _, _, _)
parse_array_push(entry, count, w, signed, endian, acc) ==
    IF entry.res # "Ok" THEN entry
    ELSE parse_array_from(entry.pos, count - 1, w, signed, endian,
                          Append(acc, entry.val))

\* impl Parse for [T; N]: the loop, with count entries still to parse and
\* acc the entries parsed
parse_array_from(p, count, w, signed, endian, acc) ==
    IF count = 0 THEN [Ok(Len(acc), p) EXCEPT !.bytes = acc]
    ELSE parse_array_push(parse_scalar(p, w, signed, endian), count, w,
                          signed, endian, acc)

\* impl Parse for [T; N]
parse_array(p, count, w, signed, endian) ==
    parse_array_from(p, count, w, signed, endian, <<>>)

\* The streams the combinators are run on: a Cursor over the bytes at any
\* position, or a view new_unchecked built over it with the stream inside
\* the view's range.
ParseInit ==
    /\ data \in ParseStreams
    /\ debug \in BOOLEAN
    /\ view \in {"none", "live"}
    /\ pos \in 0..Len(data)
    /\ IF view = "none"
       THEN start = 0 /\ last = 0
       ELSE /\ start \in 0..Len(data)
            /\ last \in 0..Len(data)
            /\ start <= last + 1
            /\ last < U64Max
            /\ start <= pos /\ pos <= last + 1
    /\ origin = pos
    /\ call = [op |-> "init"]
    /\ pre = pos
    /\ ret = Ok(0, pos)

\* A helper or combinator run on the stream returned r.
ParseReturn(c, r) ==
    /\ view \in {"none", "live"}
    /\ call' = c
    /\ pre' = pos
    /\ ret' = r
    /\ pos' = r.pos
    /\ view' = IF r.res = "Panic" THEN "aborted" ELSE view
    /\ UNCHANGED <<data, debug, start, last, origin>>

LibStreamLen ==
    ParseReturn([op |-> "lib_stream_len", seeks |-> lib_stream_len_seeks(pos)],
                lib_stream_len(pos))

ParsePeek == \E k \in 1..MaxBuf :
    ParseReturn([op |-> "parse_peek", k |-> k], parse_peek(pos, k))

Many == \E k \in 1..MaxBuf :
    ParseReturn([op |-> "many", k |-> k], many(pos, k))

Tag == \E tagdata \in SeqsUpTo(MaxTag) :
    ParseReturn([op |-> "tag", data |-> tagdata], tag(pos, tagdata))

TakeUntil == \E terminator \in ByteSet, include \in BOOLEAN :
    ParseReturn([op |-> "take_until", terminator |-> terminator,
                 include |-> include],
                take_until(pos, terminator, include))

\* parse.rs single(f)
Single ==
    ParseReturn([op |-> "single"], single(pos))

\* parse.rs take(f, amount), and take_n::<_, N>(f) with N = amount
Take == \E amount \in 0..MaxBuf :
    ParseReturn([op |-> "take", amount |-> amount], take(pos, amount))

\* T::parse(f, endian) for the integers whose width fits MaxBuf
Parse == \E w \in {x \in Widths : x <= MaxBuf}, signed \in BOOLEAN,
            endian \in Endians :
    ParseReturn([op |-> "parse", width |-> w, signed |-> signed,
                 endian |-> endian],
                parse_scalar(pos, w, signed, endian))

ParseNext ==
    \/ Single
    \/ Take
    \/ Parse
    \/ LibStreamLen
    \/ ParsePeek
    \/ Many
    \/ Tag
    \/ TakeUntil

ParseSpec == ParseInit /\ [][ParseNext]_vars

------------------------------------------------------------------------------
(* parse.rs and writable.rs: the scalar codecs.  A byte holds one of the    *)
(* values of ByteSet, so a w-byte integer is a number below Radix^w.        *)

\* impl Writable for u8..i64: the bytes handed to w.write_all
write_to(v, w, endian) ==
    IF endian = "Big" THEN to_be_bytes(as_unsigned(v, w), w)
    ELSE to_le_bytes(as_unsigned(v, w), w)

\* The loop of the slice writer: the bytes of the entries, one after the other
RECURSIVE write_entries(_, _, _)
write_entries(entries, w, endian) ==
    IF entries = <<>> THEN <<>>
    ELSE write_to(Head(entries), w, endian) \o write_entries(Tail(entries), w, endian)

\* faulty variant of write_slice: writes the number of entries first
write_slice_with_len(entries, w, endian) ==
    <<Len(entries) % Radix>> \o write_entries(entries, w, endian)

\* impl Writable for &[T] and Vec<T>
write_slice(entries, w, endian) == write_entries(entries, w, endian)

\* The values of the w-byte chunks of b, as a Vec of w-byte integers.
Decoded(b, w, signed, endian) ==
    [j \in 1..(Len(b) \div w) |->
        LET u == IF w > 1 /\ endian = "Big"
                 THEN from_be_bytes(SubSeq(b, (j - 1) * w + 1, j * w))
                 ELSE from_le_bytes(SubSeq(b, (j - 1) * w + 1, j * w))
        IN  IF signed THEN as_signed(u, w) ELSE u]

\* The streams the codecs are run on: the bytes of one scalar, or none.
CodecStreams == UNION {[1..n -> ByteSet] : n \in Widths \cup {0}}

CodecInit ==
    /\ data \in CodecStreams
    /\ debug \in BOOLEAN
    /\ view = "none"
    /\ pos = 0
    /\ start = 0
    /\ last = 0
    /\ origin = 0
    /\ call = [op |-> "init"]
    /\ pre = pos
    /\ ret = Ok(0, pos)

\* T::parse(&mut cursor, endian) on the fresh stream
ParseScalar == \E w \in Widths, signed \in BOOLEAN, endian \in Endians :
    /\ call.op = "init"
    /\ call' = [op |-> "parse", width |-> w, signed |-> signed, endian |-> endian]
    /\ pre' = pos
    /\ ret' = parse_scalar(pos, w, signed, endian)
    /\ pos' = ret'.pos
    /\ UNCHANGED <<data, debug, view, start, last, origin>>

\* value.write_to(&mut out, &mut WriteData::clear(endian)) for the value
\* that was parsed, out being an empty Vec<u8>
WriteTo == \E endian \in Endians :
    /\ call.op = "parse"
    /\ ret.res = "Ok"
    /\ call' = [op |-> "write_to", width |-> call.width, signed |-> call.signed,
                endian |-> endian, parsed |-> call.endian, value |-> ret.val]
    /\ pre' = pos
    /\ ret' = OkBytes(write_to(ret.val, call.width, endian), pos)
    /\ UNCHANGED <<data, pos, debug, view, start, last, origin>>

\* entries.write_to(&mut out, ..) for a Vec of w-byte integers
WriteSlice == \E w \in Widths, signed \in BOOLEAN, endian \in Endians :
    /\ call.op = "init"
    /\ call' = [op |-> "write_slice", width |-> w, signed |-> signed,
                endian |-> endian, entries |-> Decoded(data, w, signed, endian)]
    /\ pre' = pos
    /\ ret' = OkBytes(write_slice(Decoded(data, w, signed, endian), w, endian), pos)
    /\ UNCHANGED <<data, pos, debug, view, start, last, origin>>

\* f32::parse / f64::parse on the fresh stream
ParseFloat == \E w \in FloatWidths, endian \in Endians :
    /\ call.op = "init"
    /\ call' = [op |-> "parse_float", width |-> w, endian |-> endian]
    /\ pre' = pos
    /\ ret' = parse_float(pos, w, endian)
    /\ pos' = ret'.pos
    /\ UNCHANGED <<data, debug, view, start, last, origin>>

\* impl Writable for f32, f64, for the float that was parsed
WriteFloat == \E endian \in Endians :
    /\ call.op = "parse_float"
    /\ ret.res = "Ok"
    /\ call' = [op |-> "write_float", width |-> call.width, endian |-> endian,
                parsed |-> call.endian, value |-> ret.val]
    /\ pre' = pos
    /\ ret' = OkBytes(write_to(ret.val, call.width, endian), pos)
    /\ UNCHANGED <<data, pos, debug, view, start, last, origin>>

\* <[T; N]>::parse on the fresh stream
ParseArray == \E count \in 0..MaxBuf, w \in Widths, signed \in BOOLEAN,
                 endian \in Endians :
    /\ call.op = "init"
    /\ call' = [op |-> "parse_array", count |-> count, width |-> w,
                signed |-> signed, endian |-> endian]
    /\ pre' = pos
    /\ ret' = parse_array(pos, count, w, signed, endian)
    /\ pos' = ret'.pos
    /\ UNCHANGED <<data, debug, view, start, last, origin>>

CodecNext ==
    \/ ParseScalar
    \/ ParseFloat
    \/ ParseArray
    \/ WriteTo
    \/ WriteFloat
    \/ WriteSlice

CodecSpec == CodecInit /\ [][CodecNext]_vars

------------------------------------------------------------------------------
(* lib.rs: skip and read_if_possible, and many with a step that may leave   *)
(* the stream anywhere, over a plain stream                                 *)

\* Longest list of outcomes a reader is told to produce before it behaves.
MaxScript == 2

\* How many bytes a short read delivers.
ShortReads == {1}

\* What one call of read on a reader may do before the Cursor below it is
\* reached: fail with Interrupted, fail with another error, or deliver at
\* most max bytes.
ReadOutcomes ==
    {[kind |-> "Interrupted", max |-> 0], [kind |-> "Other", max |-> 0]}
        \cup {[kind |-> "Short", max |-> c] : c \in ShortReads}

\* The outcomes of the reader's next calls, in order.  The call returns at
\* the first error other than Interrupted, so nothing is listed after one.
Scripts ==
    {sc \in UNION {[1..m -> ReadOutcomes] : m \in 0..MaxScript} :
        \A i \in 1..(Len(sc) - 1) : sc[i].kind # "Other"}

\* faulty variant of read_if_possible_from: gives up after the first read
read_once_from(p, n, script, acc) ==
    IF n = 0 THEN OkBytes(acc, p)
    ELSE IF script # <<>> /\ Head(script).kind # "Short"
         THEN Err(Head(script).kind, acc, p)
         ELSE LET got == InputRead(p, IF script = <<>> THEN n
                                      ELSE Min(n, Head(script).max))
              IN  OkBytes(acc \o got, p + Len(got))

\* lib.rs read_if_possible: the loop, with n bytes of the buffer still empty
\* and acc the bytes already in it
RECURSIVE read_if_possible_from(_, _, _, _)
read_if_possible_from(p, n, script, acc) ==
    IF n = 0 THEN OkBytes(acc, p)
    ELSE IF script # <<>> /\ Head(script).kind = "Interrupted"
         THEN read_if_possible_from(p, n, Tail(script), acc)
    ELSE IF script # <<>> /\ Head(script).kind = "Other"
         THEN Err("Other", acc, p)
    ELSE LET got == InputRead(p, IF script = <<>> THEN n
                                 ELSE Min(n, Head(script).max))
         IN  IF got = <<>> THEN OkBytes(acc, p)
             ELSE read_if_possible_from(p + Len(got), n - Len(got),
                                        IF script = <<>> THEN script
                                        ELSE Tail(script),
                                        acc \o got)

\* lib.rs read_if_possible on a buffer of n bytes
read_if_possible(p, n, script) == read_if_possible_from(p, n, script, <<>>)

\* usize::saturating_sub
saturating_sub(a, b) == IF a < b THEN 0 ELSE a - b

\* faulty variant of skip: reads a whole chunk every time
RECURSIVE skip_whole_chunks(_, _, _)
skip_whole_chunks(p, amount, chunk) ==
    IF amount = 0 THEN Ok(0, p)
    ELSE LET r == f_read_exact(p, chunk)
         IN  IF r.res # "Ok" THEN [r EXCEPT !.bytes = <<>>]
             ELSE skip_whole_chunks(r.pos, saturating_sub(amount, chunk), chunk)

\* lib.rs skip::<_, CHUNK>(f, amount)
RECURSIVE skip(_, _, _)
skip(p, amount, chunk) ==
    IF amount = 0 THEN Ok(0, p)
    ELSE LET r == f_read_exact(p, Min(chunk, amount))
         IN  IF r.res # "Ok" THEN [r EXCEPT !.bytes = <<>>]
             ELSE skip(r.pos, saturating_sub(amount, chunk), chunk)

\* The loop of many with the step |f, _| f.seek(SeekFrom::Current(k)),
\* which returns Ok wherever it leaves the stream
RECURSIVE many_seeking_loop(_, _, _, _)
many_seeking_loop(p, k, len, result) ==
    LET here == lib_stream_position(p)
    IN  IF here.res # "Ok" THEN from_io(here)
        ELSE IF here.val >= len THEN many_finish(here.pos, len, result)
        ELSE LET step == f_seek(here.pos, "Current", k)
             IN  IF step.res # "Ok" THEN from_io(step)
                 ELSE many_seeking_loop(step.pos, k, len, Append(result, step.val))

\* parse.rs many with that step
many_seeking(p, k) ==
    LET len == lib_stream_len(p)
    IN  IF len.res # "Ok" THEN from_io(len)
        ELSE many_seeking_loop(len.pos, k, len.val, <<>>)

\* The streams skip, read_if_possible and many are run on.  None of them
\* looks at the value of a byte, so one stream per length and first byte is
\* enough; neighbouring bytes differ, so that bytes out of order show.
LibStreams ==
    {s \in ParseStreams : \A i \in 1..(Len(s) - 1) : s[i] # s[i + 1]}

\* A Cursor over the bytes, at any position: inside the data, at its end or
\* past it (Cursor::seek and set_position accept any offset).
LibInit ==
    /\ data \in LibStreams
    /\ debug \in BOOLEAN
    /\ view = "none"
    /\ pos \in 0..U64Max
    /\ start = 0
    /\ last = 0
    /\ origin = pos
    /\ call = [op |-> "init"]
    /\ pre = pos
    /\ ret = Ok(0, pos)

ReadIfPossible == \E n \in 0..MaxBuf, script \in Scripts :
    ParseReturn([op |-> "read_if_possible", n |-> n, script |-> script],
                read_if_possible(pos, n, script))

Skip == \E amount \in 0..(MaxStream + 1), chunk \in 1..MaxBuf :
    ParseReturn([op |-> "skip", amount |-> amount, chunk |-> chunk],
                skip(pos, amount, chunk))

ManySeeking == \E k \in 1..MaxBuf :
    ParseReturn([op |-> "many_seeking", k |-> k], many_seeking(pos, k))

LibNext ==
    \/ ReadIfPossible
    \/ Skip
    \/ ManySeeking

LibSpec == LibInit /\ [][LibNext]_vars

------------------------------------------------------------------------------
(* C11..C12: seek targets and the length of the view *)

\* C11: a seek whose computed absolute target t (the sum seek forms, plus
\* start()) lies within [start, end] leaves the stream at t, returns
\* t - start(), and stream_position() then reports the same value; a target
\* outside that interval leaves the stream at end().
C11_SeekHonoredOrClamped ==
    (IsSeek /\ WellFormed /\ ~SeekOutOfRange)
        => IF start <= SeekSum + start /\ SeekSum + start <= End
           THEN /\ ret.res = "Ok"
                /\ pos = SeekSum + start
                /\ ret.val = SeekSum
                /\ stream_position(pos) = ret.val
           ELSE ret.res = "Ok" /\ pos = End

\* C11 witness: a backward relative seek landed strictly inside a view with
\* start > 0.
C11_Witness ==
    /\ IsSeek /\ WellFormed /\ call.from = "Current" /\ call.off < 0
    /\ start > 0 /\ pos > start /\ pos < last /\ pos = pre + call.off
    /\ ret.res = "Ok"

\* C12: stream_len() of a view never reports more than end() - start(), and
\* for a window that lies wholly inside the underlying stream it reports
\* exactly end() - start().
C12_StreamLenIsWindow ==
    (call.op = "stream_len" /\ WellFormed)
        => /\ ret.res = "Ok" => ret.val <= WindowLen
           /\ End <= Len(data) => (ret.res = "Ok" /\ ret.val = WindowLen)

------------------------------------------------------------------------------
(* C13..C20: the helpers and combinators of lib.rs and parse.rs *)

\* The stream handed to the helper is the Cursor itself.
Plain == view = "none"

\* C13: the free function stream_len, on a plain stream, returns the number
\* of bytes of the stream and leaves the position where it was, whether or
\* not the stream was at its end.
C13_StreamLenRestores ==
    (call.op = "lib_stream_len" /\ Plain)
        => /\ ret.res = "Ok"
           /\ ret.val = Len(data)
           /\ pos = pre

\* C13 case: called in the middle of a stream, so that it had to seek back.
C13_Witness ==
    /\ call.op = "lib_stream_len" /\ Plain
    /\ 0 < pre /\ pre < Len(data)
    /\ ret.res = "Ok" /\ ret.val = Len(data) /\ pos = pre

\* The position before the call is inside the region the stream covers: any
\* position of a plain stream, a position inside the window of a view.
InRegion == Plain \/ (start <= pre /\ pre <= End)

\* Where the region ends in the bytes of the stream.
RegionEnd == IF Plain THEN Len(data) ELSE Min(End, Len(data))

\* C14: when its position query and its restoring seek succeed, parse_peek
\* leaves the position where it was, and returns what the parser returned,
\* value or error.
C14_PeekRestores ==
    (call.op = "parse_peek" /\ view # "aborted" /\ InRegion)
        => LET initial == lib_stream_position(pre)
               parsed  == take(initial.pos, call.k)
               back    == f_seek(parsed.pos, "Start", initial.val)
           IN  (initial.res = "Ok" /\ back.res = "Ok")
                   => /\ pos = pre
                      /\ ret.res = parsed.res
                      /\ ret.kind = parsed.kind
                      /\ ret.bytes = parsed.bytes

\* C14 case: the parser ran out of bytes after reading some, and the stream
\* is back where it was.
C14_Witness ==
    /\ call.op = "parse_peek" /\ Plain
    /\ pre < Len(data) /\ pre + call.k > Len(data)
    /\ ret.res = "Err" /\ ret.kind = "Io(UnexpectedEof)"
    /\ pos = pre

\* The j-th chunk of k bytes of the stream.
Chunk(j, k) == SubSeq(data, (j - 1) * k + 1, j * k)

\* C15: many (and many_parse) with a step that takes k bytes, started at
\* position 0 of a plain stream of L bytes with k dividing L, returns the
\* L / k chunks of the stream in order and leaves the position at L.
C15_ManyExhausts ==
    (call.op = "many" /\ Plain /\ pre = 0 /\ Len(data) % call.k = 0)
        => /\ ret.res = "Ok"
           /\ ret.val = Len(data) \div call.k
           /\ ret.bytes = [j \in 1..(Len(data) \div call.k) |-> Chunk(j, call.k)]
           /\ pos = Len(data)

\* C15 case: a stream split into more than one chunk of more than one byte,
\* or into several single bytes.
C15_Witness ==
    /\ call.op = "many" /\ Plain /\ pre = 0
    /\ Len(data) % call.k = 0
    /\ ret.res = "Ok" /\ ret.val >= 2
    /\ ret.bytes[2] = Chunk(2, call.k)
    /\ pos = Len(data)

\* What is left of the region many runs over: of the stream, or of the
\* window of the view.
RegionLeft == IF Plain THEN Len(data) - pre ELSE End - pre

\* C16: many with a step that takes k bytes, run over a region (a plain
\* stream, or the window of a view) whose remaining length k does not
\* divide, returns an error.
C16_ManyRejectsRemainder ==
    (/\ call.op = "many"
     /\ Plain \/ (start <= pre /\ pre <= End)
     /\ RegionLeft % call.k # 0)
        => ret.res = "Err"

\* The bytes of the stream from offset a up to, not including, offset b.
Bytes(a, b) == SubSeq(data, a + 1, b)

\* The next bytes of the stream are all there for the tag.
TagFits == InRegion /\ pre + Len(call.data) <= RegionEnd

\* C17: when the next len(data) bytes of the stream equal data, tag succeeds
\* and advances by len(data); when one of them differs, tag fails with
\* InvalidByte.
C17_TagMatches ==
    (call.op = "tag" /\ TagFits)
        => IF Bytes(pre, pre + Len(call.data)) = call.data
           THEN ret.res = "Ok" /\ pos = pre + Len(call.data)
           ELSE ret.res = "Err" /\ ret.kind = "InvalidByte"

\* C17 case: only the last byte of the tag differs.
C17_Witness ==
    /\ call.op = "tag" /\ TagFits
    /\ Len(call.data) >= 2
    /\ data[pre + 1] = call.data[1]
    /\ data[pre + 2] # call.data[2]
    /\ ret.res = "Err" /\ ret.kind = "InvalidByte"

\* C18 (as stated): when tag fails on a mismatch it has consumed len(data)
\* bytes, wherever the mismatch is.
C18_TagConsumesWholeTag ==
    (call.op = "tag" /\ InRegion /\ ret.res = "Err" /\ ret.kind = "InvalidByte")
        => pos = pre + Len(call.data)

\* C18 (amended): when tag fails on a mismatch it has consumed the bytes up
\* to and including the first mismatching one, and none after it.
C18_TagConsumesToMismatch ==
    (call.op = "tag" /\ InRegion /\ ret.res = "Err" /\ ret.kind = "InvalidByte")
        => \E i \in 1..Len(call.data) :
              /\ pos = pre + i
              /\ data[pre + i] # call.data[i]
              /\ Bytes(pre, pre + i - 1) = SubSeq(call.data, 1, i - 1)

\* C18 case: the first byte of a longer tag differs, with the rest of the
\* tag's length still in the stream.
C18_Witness ==
    /\ call.op = "tag" /\ TagFits
    /\ Len(call.data) >= 2
    /\ data[pre + 1] # call.data[1]
    /\ ret.res = "Err" /\ ret.kind = "InvalidByte"
    /\ pos = pre + 1

\* The offsets at or after the position where the terminator stands.
TerminatorAt == {i \in pre..(RegionEnd - 1) : data[i + 1] = call.terminator}

\* Of a non-empty set of offsets, the first.
First(S) == CHOOSE i \in S : \A j \in S : i <= j

\* C19: with the first terminator at or after the position p at offset i,
\* take_until returns the bytes p..i-1, followed by the terminator iff
\* include is set, and leaves the stream at i + 1.
C19_TakeUntilStopsAfterTerminator ==
    (call.op = "take_until" /\ InRegion /\ TerminatorAt # {})
        => LET i == First(TerminatorAt)
           IN  /\ ret.res = "Ok"
               /\ ret.bytes = Bytes(pre, i) \o (IF call.include
                                                THEN <<call.terminator>>
                                                ELSE <<>>)
               /\ pos = i + 1

\* C19 case: the terminator is left out of a non-empty result and is
\* consumed all the same.
C19_Witness ==
    /\ call.op = "take_until" /\ InRegion /\ TerminatorAt # {}
    /\ ~call.include
    /\ First(TerminatorAt) > pre
    /\ ret.res = "Ok" /\ Len(ret.bytes) = First(TerminatorAt) - pre
    /\ pos = First(TerminatorAt) + 1

\* C20: with no terminator between the position and the end of the stream,
\* take_until fails with the end-of-stream error (the io error
\* UnexpectedEof, as ParseError::Io) and hands back no bytes.
C20_TakeUntilFailsAtEnd ==
    (call.op = "take_until" /\ InRegion /\ TerminatorAt = {})
        => /\ ret.res = "Err"
           /\ ret.kind = "Io(UnexpectedEof)"
           /\ ret.bytes = <<>>

\* C20 case: bytes were read before the stream ran out.
C20_Witness ==
    /\ call.op = "take_until" /\ InRegion /\ TerminatorAt = {}
    /\ pre < RegionEnd
    /\ ret.res = "Err" /\ ret.kind = "Io(UnexpectedEof)"
    /\ pos = RegionEnd

------------------------------------------------------------------------------
(* C21..C30 *)

\* C21: parsing the w bytes of a stream under a byte order and writing the
\* value under the same order gives back exactly those w bytes, for every
\* width, signed and unsigned.
C21_RoundTrip ==
    (call.op = "write_to" /\ call.endian = call.parsed)
        => /\ ret.val = call.width
           /\ ret.bytes = SubSeq(data, 1, call.width)

\* C21 case: a signed value of more than one byte, negative, whose bytes are
\* not a palindrome, through the big-endian codec.
C21_Witness ==
    /\ call.op = "write_to" /\ call.endian = call.parsed
    /\ call.endian = "Big" /\ call.signed /\ call.width = 4
    /\ call.value < 0
    /\ data[1] # data[4]
    /\ ret.bytes = data

\* The j-th entry of the slice as ret's bytes hold it.
WrittenEntry(j) ==
    SubSeq(ret.bytes, (j - 1) * call.width + 1, j * call.width)

\* C22: writing a slice or Vec of n entries of w bytes emits n * w bytes,
\* the encodings of the entries in index order and nothing else; an empty
\* slice emits nothing.
C22_SliceBackToBack ==
    (call.op = "write_slice")
        => /\ ret.val = Len(call.entries) * call.width
           /\ \A j \in 1..Len(call.entries) :
                 WrittenEntry(j) = write_to(call.entries[j], call.width, call.endian)
           /\ call.entries = <<>> => ret.bytes = <<>>

\* C22 case: several entries of more than one byte that differ from each
\* other.
C22_Witness ==
    /\ call.op = "write_slice"
    /\ call.width = 2 /\ Len(call.entries) = 4
    /\ call.entries[1] # call.entries[2]
    /\ ret.val = 8
    /\ WrittenEntry(2) = write_to(call.entries[2], 2, call.endian)

\* The i-th least significant byte (i from 1) of the value written.
ByteOfValue(i) ==
    (as_unsigned(call.value, call.width) \div Pow(Radix, i - 1)) % Radix

\* C25: every scalar Writable writes its integer least significant byte
\* first, whatever byte order the WriteData it is given names.
C25_AlwaysLittleEndian ==
    (call.op = "write_to")
        => \A i \in 1..call.width : ret.bytes[i] = ByteOfValue(i)

\* The bytes left in the stream when the helper was called.
Remaining == IF pre > Len(data) THEN 0 ELSE Len(data) - pre

\* The reader was told to fail with an error other than Interrupted in a
\* call that read_if_possible got to make: before it, only interruptions
\* and short reads that left both room in the buffer and bytes in the
\* stream.
RECURSIVE FatalReached(_, _, _)
FatalReached(script, room, left) ==
    /\ script # <<>>
    /\ room > 0
    /\ \/ Head(script).kind = "Other"
       \/ /\ Head(script).kind = "Interrupted"
          /\ FatalReached(Tail(script), room, left)
       \/ /\ Head(script).kind = "Short"
          /\ left > 0
          /\ FatalReached(Tail(script),
                          room - Min(Min(room, left), Head(script).max),
                          left - Min(Min(room, left), Head(script).max))

\* C23: read_if_possible returns n = min(len(buf), bytes remaining) with the
\* next n bytes of the stream in the buffer, whatever short reads and
\* interruptions the reader produces; an error other than Interrupted is
\* returned to the caller.
C23_ReadIfPossibleFills ==
    (call.op = "read_if_possible")
        => IF FatalReached(call.script, call.n, Remaining)
           THEN ret.res = "Err" /\ ret.kind = "Other"
           ELSE /\ ret.res = "Ok"
                /\ ret.val = Min(call.n, Remaining)
                /\ ret.bytes = Bytes(pre, pre + ret.val)
                /\ pos = pre + ret.val

\* C23 case: an interruption and a short read on the way to a full buffer.
C23_Witness ==
    /\ call.op = "read_if_possible"
    /\ Len(call.script) = 2
    /\ call.script[1].kind = "Interrupted"
    /\ call.script[2].kind = "Short" /\ call.script[2].max < call.n
    /\ Remaining >= call.n
    /\ ret.res = "Ok" /\ ret.val = call.n
    /\ ret.bytes = Bytes(pre, pre + call.n)

\* C24: skip with a chunk of at least one byte consumes exactly amount bytes
\* when that many remain, whether or not amount is a multiple of the chunk,
\* and fails when fewer remain.
C24_SkipConsumesAmount ==
    (call.op = "skip")
        => IF call.amount <= Remaining
           THEN ret.res = "Ok" /\ pos = pre + call.amount
           ELSE ret.res = "Err"

\* C24 case: more than one chunk and a last one that is not full.
C24_Witness ==
    /\ call.op = "skip"
    /\ call.amount > call.chunk /\ call.amount % call.chunk # 0
    /\ call.amount <= Remaining
    /\ ret.res = "Ok" /\ pos = pre + call.amount

\* C27: when a step of many returns Ok and leaves the stream past the
\* length measured at the start, many does not return Ok.
C27_ManyReportsOverrun ==
    (/\ call.op = "many_seeking"
     /\ pre < Len(data)
     /\ Remaining % call.k # 0)
        => ret.res # "Ok"

\* C28 (as stated): the free function stream_len makes at most two seek
\* calls on the stream, and leaves out the restoring one exactly when the
\* stream was at its end.
C28_AtMostTwoSeeks ==
    (call.op = "lib_stream_len" /\ Plain)
        => call.seeks <= 2

\* C28 (amended): the free function stream_len makes at most three seek calls
\* on the stream: the position query, the seek to the end, and the restoring
\* seek, which it leaves out (two calls) exactly when the stream was at its
\* end.
C28_AtMostThreeSeeks ==
    (call.op = "lib_stream_len" /\ Plain)
        => /\ call.seeks <= 3
           /\ call.seeks = 2 <=> pre = Len(data)

\* C28 case: called before the end of the stream, three seeks, the stream
\* back where it was.
C28_Witness ==
    /\ call.op = "lib_stream_len" /\ Plain
    /\ pre < Len(data)
    /\ call.seeks = 3
    /\ ret.res = "Ok" /\ pos = pre

\* C26: no offset computation of the view wraps or aborts: every view that
\* new_unchecked or at is asked for is built, and end() of every view is
\* last + 1, also for a range whose last offset is the largest one.
C26_OffsetsExactOrRejected ==
    /\ call.op \in {"new_unchecked", "at"} => ret.res = "Ok"
    /\ view = "live" => end = last + 1

\* C29: a seek on the view that fails with InvalidInput leaves the
\* underlying stream where it was.
C29_FailedSeekKeepsPosition ==
    (IsSeek /\ ret.res = "Err" /\ ret.kind = "InvalidInput")
        => pos = pre

\* C29 case: a relative seek to before the start of a window that does not
\* begin at offset 0, so that the stream could have moved there.
C29_Witness ==
    /\ IsSeek /\ WellFormed /\ call.from = "Current"
    /\ start > 0
    /\ (pre - start) + call.off < 0 /\ pre + call.off >= 0
    /\ ret.res = "Err" /\ ret.kind = "InvalidInput"
    /\ pos = pre

\* C30: InputSlice::stream_len, called with the stream anywhere in
\* [start, end], leaves the stream, and so the relative position, where it
\* was, at the end of the view or before it.
C30_SliceStreamLenRestores ==
    (call.op = "stream_len" /\ WellFormed /\ start <= pre /\ pre <= End)
        => /\ ret.res # "Panic"
           /\ pos = pre

\* C30 case: called before the end of the view, so that it sought to the end
\* and back.
C30_Witness ==
    /\ call.op = "stream_len" /\ WellFormed
    /\ start <= pre /\ pre < End
    /\ ret.res = "Ok" /\ ret.val = WindowLen
    /\ pos = pre

====
